---- MODULE Spec2Model ----
(***************************************************************************)
(* Jina Reader MCP server (src/src/index.ts): the in-memory TTL cache and  *)
(* the upstream client (callJinaReaderAPI), the three tool handlers        *)
(* (jina_read_url, jina_read_html, jina_read_pdf) and the response         *)
(* formatter with its pagination trailer (formatJinaResponse).             *)
(*                                                                         *)
(* JavaScript strings are modelled by TLA+ strings (Len, \o and SubSeq     *)
(* work on them), so every text the program produces is the literal text.  *)
(* An optional argument is a sequence: <<>> for undefined, <<v>> for v.    *)
(***************************************************************************)
EXTENDS Integers, Sequences, FiniteSets, TLC

VARIABLES
    cache,        \* index.ts:27  cache: Record<string, CacheEntry>
    now,          \* Date.now(), in milliseconds since the process started
    apiKey,       \* process.env.JINA_API_KEY ("" when not configured)
    inv,          \* one record per handler invocation slot (async task)
    invocations,  \* number of handler invocations dispatched so far
    storedBy,     \* history: for each cache key, the invocation that stored its entry
    fmt           \* call frame of a direct formatJinaResponse call

vars == <<cache, now, apiKey, inv, invocations, storedBy, fmt>>

---------------------------------------------------------------------------
(* Bounds of the model *)

MaxInvocations == 2
MaxClock == 2

---------------------------------------------------------------------------
(* Optional values *)

None == <<>>
Some(v) == <<v>>
IsSome(o) == Len(o) = 1
Val(o) == o[1]

---------------------------------------------------------------------------
(* Program constants *)

\* index.ts:28
CACHE_TTL == 3 * 60 * 60 * 1000

\* index.ts:263
defaultMaxLength == 20000

\* index.ts:259
NoContentText == "No content extracted or unexpected response format."

\* the payload field of each tool: { url }, { html }, { pdf } (127, 164, 201)
ParamField(tool) ==
    CASE tool = "jina_read_url" -> "url"
      [] tool = "jina_read_html" -> "html"
      [] tool = "jina_read_pdf" -> "pdf"

---------------------------------------------------------------------------
(* String helpers *)

RECURSIVE Repeat(_, _)
Repeat(s, n) ==
    IF n <= 0 THEN ""
    ELSE IF n % 2 = 1 THEN s \o Repeat(s, n - 1)
    ELSE LET h == Repeat(s, n \div 2) IN h \o h

Clamp(i, len) == IF i < 0 THEN 0 ELSE IF i > len THEN len ELSE i

\* String.prototype.substring(start, end): both indices are clamped to
\* [0, length] and swapped when start > end; the result is [lo, hi).
Substring(s, start, end) ==
    LET a == Clamp(start, Len(s))
        b == Clamp(end, Len(s))
        lo == IF a <= b THEN a ELSE b
        hi == IF a <= b THEN b ELSE a
    IN  IF lo = hi THEN "" ELSE SubSeq(s, lo + 1, hi)

IsSpace(c) == c \in {" ", "\n", "\t", "\r"}

\* String.prototype.trim()
RECURSIVE TrimStart(_)
TrimStart(s) ==
    IF Len(s) = 0 THEN ""
    ELSE IF IsSpace(SubSeq(s, 1, 1)) THEN TrimStart(Substring(s, 1, Len(s)))
    ELSE s

RECURSIVE TrimEnd(_)
TrimEnd(s) ==
    IF Len(s) = 0 THEN ""
    ELSE IF IsSpace(SubSeq(s, Len(s), Len(s))) THEN TrimEnd(Substring(s, 0, Len(s) - 1))
    ELSE s

Trim(s) == TrimEnd(TrimStart(s))

StartsWith(s, prefix) ==
    Len(prefix) <= Len(s) /\ Substring(s, 0, Len(prefix)) = prefix

EndsWith(s, suffix) ==
    Len(suffix) <= Len(s) /\ Substring(s, Len(s) - Len(suffix), Len(s)) = suffix

---------------------------------------------------------------------------
(* Parsed upstream bodies (the value of response.json()).                  *)
(* json = "null" is the JSON text null; json = "object" is an object whose *)
(* data field is present (hasData) or not.  An absent or empty field of    *)
(* data is "" (strings), <<>> (links) or 0 (usage.tokens): the formatter   *)
(* tests all of them by truthiness.  links is the list of the entries of   *)
(* data.links in insertion order.                                          *)

Body(json, hasData, title, description, content, links, warning, tokens) ==
    [json |-> json, hasData |-> hasData, title |-> title,
     description |-> description, content |-> content, links |-> links,
     warning |-> warning, tokens |-> tokens]

NullBody == Body("null", FALSE, "", "", "", <<>>, "", 0)
NoDataBody == Body("object", FALSE, "", "", "", <<>>, "", 0)
Doc(title, description, content, links, warning, tokens) ==
    Body("object", TRUE, title, description, content, links, warning, tokens)

---------------------------------------------------------------------------
(* formatJinaResponse, index.ts:225-289 *)

\* index.ts:243-249
RECURSIVE LinksLines(_)
LinksLines(links) ==
    IF Len(links) = 0 THEN ""
    ELSE "- [" \o links[1][1] \o "](" \o links[1][2] \o ")\n" \o LinksLines(Tail(links))

\* mutant of Assemble: a description of blanks only is rendered too
Assemble_BlankDescription(result) ==
    IF result.hasData
    THEN (IF result.title # "" THEN "# " \o result.title \o "\n\n" ELSE "")
         \o (IF result.description # "" THEN result.description \o "\n\n" ELSE "")
         \o (IF result.content # "" THEN result.content \o "\n\n" ELSE "")
         \o (IF Len(result.links) > 0
             THEN "## Links\n\n" \o LinksLines(result.links) \o "\n" ELSE "")
         \o (IF result.warning # "" THEN "> Warning: " \o result.warning \o "\n\n" ELSE "")
         \o (IF result.tokens # 0 THEN "*Used " \o ToString(result.tokens) \o " tokens*\n" ELSE "")
    ELSE NoContentText

\* index.ts:226-260: the text assembled before the length limit is applied
Assemble(result) ==
    IF result.hasData
    THEN (IF result.title # "" THEN "# " \o result.title \o "\n\n" ELSE "")
         \o (IF result.description # "" /\ Trim(result.description) # ""
             THEN result.description \o "\n\n" ELSE "")
         \o (IF result.content # "" THEN result.content \o "\n\n" ELSE "")
         \o (IF Len(result.links) > 0
             THEN "## Links\n\n" \o LinksLines(result.links) \o "\n" ELSE "")
         \o (IF result.warning # "" THEN "> Warning: " \o result.warning \o "\n\n" ELSE "")
         \o (IF result.tokens # 0 THEN "*Used " \o ToString(result.tokens) \o " tokens*\n" ELSE "")
    ELSE NoContentText

\* mutant of EffectiveMaxLength: a negative max_length falls back to the default
EffectiveMaxLength_PositiveOnly(max_length) ==
    IF IsSome(max_length) /\ Val(max_length) > 0 THEN Val(max_length) ELSE defaultMaxLength

\* index.ts:264  max_length || defaultMaxLength (0 and undefined are falsy)
EffectiveMaxLength(max_length) ==
    IF IsSome(max_length) /\ Val(max_length) # 0 THEN Val(max_length) ELSE defaultMaxLength

\* mutant of Clip: the text is not clipped at all
Clip_Nothing(output, effectiveMaxLength) == output

\* mutant of Clip: one character too many is kept
Clip_OneMore(output, effectiveMaxLength) == Substring(output, 0, effectiveMaxLength + 1)

\* index.ts:272  output.substring(0, effectiveMaxLength)
Clip(output, effectiveMaxLength) == Substring(output, 0, effectiveMaxLength)

\* index.ts:273-277
ClippedTrailer(startPosition, endPosition, totalLength) ==
    "\n\n---\n"
    \o "[PAGINATION INFO]\n"
    \o "- Content clipped: Currently showing characters "
    \o ToString(startPosition) \o "-" \o ToString(endPosition)
    \o " of approximately " \o ToString(totalLength) \o " total\n"
    \o "- To view the next section, use start_index="
    \o ToString(endPosition) \o " with the same max_length\n"
    \o "- Complete content can be accessed by making multiple paginated requests\n"

\* mutant of AtBeginning: startPosition >= 0, so start index 0 gets a trailer
AtBeginning_Never(startPosition) == ~(startPosition >= 0)

\* index.ts:280  startPosition > 0
AtBeginning(startPosition) == ~(startPosition > 0)

\* index.ts:281-284
EndTrailer(startPosition, length) ==
    "\n\n---\n"
    \o "[PAGINATION INFO]\n"
    \o "- Showing characters " \o ToString(startPosition) \o "-"
    \o ToString(startPosition + length) \o " of the document\n"
    \o "- This appears to be the end of the content\n"

\* index.ts:262-286
Paginate(output, max_length, start_index) ==
    LET effectiveMaxLength == EffectiveMaxLength(max_length)
        startPosition == start_index
    IN  IF Len(output) > effectiveMaxLength
        THEN LET totalLength == Len(output)
                 endPosition == startPosition + effectiveMaxLength
             IN  Clip(output, effectiveMaxLength)
                 \o ClippedTrailer(startPosition, endPosition, totalLength)
        ELSE IF ~AtBeginning(startPosition)
             THEN output \o EndTrailer(startPosition, Len(output))
             ELSE output

\* index.ts:228  result.data on a null result raises a TypeError
FormatThrows(result) == result.json = "null"

FormatErrorMessage == "Cannot read properties of null (reading 'data')"

\* index.ts:225-289, for a result on which it does not throw
formatJinaResponse(result, max_length, start_index) ==
    Paginate(Assemble(result), max_length, start_index)

---------------------------------------------------------------------------
(* JSON.stringify, for the values the program serialises.  The payload     *)
(* strings of the model hold no character that JSON escapes.               *)

JsonString(s) == "\"" \o s \o "\""

JsonNumber(n) == ToString(n)

\* JSON.stringify({ url }) / ({ html }) / ({ pdf })
JsonParams(params) ==
    "{" \o JsonString(params.field) \o ":" \o JsonString(params.value) \o "}"

\* mutant of CacheKey: max_length is left out of the key
CacheKey_NoMaxLength(params, engine, max_length, start_index) ==
    "{\"params\":" \o JsonParams(params)
    \o ",\"engine\":" \o JsonString(engine)
    \o (IF IsSome(start_index)
        THEN ",\"start_index\":" \o JsonNumber(Val(start_index)) ELSE "")
    \o "}"

\* mutant of CacheKey: start_index is left out of the key
CacheKey_NoStartIndex(params, engine, max_length, start_index) ==
    "{\"params\":" \o JsonParams(params)
    \o ",\"engine\":" \o JsonString(engine)
    \o (IF IsSome(max_length)
        THEN ",\"max_length\":" \o JsonNumber(Val(max_length)) ELSE "")
    \o "}"

\* index.ts:45  JSON.stringify({ params, engine, max_length, start_index }):
\* a property whose value is undefined is left out of the text
CacheKey(params, engine, max_length, start_index) ==
    "{\"params\":" \o JsonParams(params)
    \o ",\"engine\":" \o JsonString(engine)
    \o (IF IsSome(max_length)
        THEN ",\"max_length\":" \o JsonNumber(Val(max_length)) ELSE "")
    \o (IF IsSome(start_index)
        THEN ",\"start_index\":" \o JsonNumber(Val(start_index)) ELSE "")
    \o "}"

---------------------------------------------------------------------------
(* The outbound request, index.ts:62-90 *)

\* mutant of Headers: the engine header is sent with every request
Headers_AlwaysEngine(key, engine) ==
    [h \in {"Accept", "Authorization", "X-Return-Format", "X-With-Links-Summary",
            "Content-Type", "X-Cache", "X-Engine"} |->
        CASE h = "Accept" -> "application/json"
          [] h = "Authorization" -> "Bearer " \o key
          [] h = "X-Return-Format" -> "markdown"
          [] h = "X-With-Links-Summary" -> "true"
          [] h = "Content-Type" -> "application/json"
          [] h = "X-Cache" -> "true"
          [] h = "X-Engine" -> engine]

\* index.ts:63-75  the six fixed headers, and X-Engine when the engine is
\* not "none"
Headers(key, engine) ==
    [h \in {"Accept", "Authorization", "X-Return-Format", "X-With-Links-Summary",
            "Content-Type", "X-Cache"}
           \cup (IF engine # "none" THEN {"X-Engine"} ELSE {}) |->
        CASE h = "Accept" -> "application/json"
          [] h = "Authorization" -> "Bearer " \o key
          [] h = "X-Return-Format" -> "markdown"
          [] h = "X-With-Links-Summary" -> "true"
          [] h = "Content-Type" -> "application/json"
          [] h = "X-Cache" -> "true"
          [] h = "X-Engine" -> engine]

\* mutant of RequestParams: a start_index of 0 is dropped like an omitted one
RequestParams_DropsZero(params, max_length, start_index) ==
    << <<params.field, JsonString(params.value)>> >>
    \o (IF IsSome(max_length)
        THEN << <<"max_length", JsonNumber(Val(max_length))>> >> ELSE <<>>)
    \o (IF IsSome(start_index) /\ Val(start_index) # 0
        THEN << <<"start_index", JsonNumber(Val(start_index))>> >> ELSE <<>>)

\* index.ts:78-84  { ...params } with max_length and start_index added when
\* they are not undefined: the properties in their order, each with the
\* JSON text of its value
RequestParams(params, max_length, start_index) ==
    << <<params.field, JsonString(params.value)>> >>
    \o (IF IsSome(max_length)
        THEN << <<"max_length", JsonNumber(Val(max_length))>> >> ELSE <<>>)
    \o (IF IsSome(start_index)
        THEN << <<"start_index", JsonNumber(Val(start_index))>> >> ELSE <<>>)

RECURSIVE JsonMembers(_)
JsonMembers(props) ==
    IF props = <<>> THEN ""
    ELSE JsonString(props[1][1]) \o ":" \o props[1][2]
         \o (IF Len(props) > 1 THEN "," ELSE "") \o JsonMembers(Tail(props))

\* index.ts:89  JSON.stringify(requestParams)
JsonObject(props) == "{" \o JsonMembers(props) \o "}"

\* index.ts:86-90  the call of fetch
OutboundRequest(key, params, engine, max_length, start_index) ==
    [url |-> "https://r.jina.ai/", method |-> "POST",
     headers |-> Headers(key, engine),
     body |-> JsonObject(RequestParams(params, max_length, start_index))]

\* no call of fetch
NoRequest == [url |-> "", method |-> "", headers |-> <<>>, body |-> ""]

---------------------------------------------------------------------------
(* Cache, index.ts:21-28 and 47-60, 98-104 *)

CacheEntry(data, timestamp) == [data |-> data, timestamp |-> timestamp]

\* index.ts:48  cache[cacheKey] is truthy
HasEntry(c, key) == key \in DOMAIN c

\* mutant of IsFresh: an entry exactly one TTL old still counts as live
IsFresh_Inclusive(entry, t) == t - entry.timestamp <= CACHE_TTL

\* index.ts:53  now - entry.timestamp < CACHE_TTL
IsFresh(entry, t) == t - entry.timestamp < CACHE_TTL

\* mutant of CacheDelete: the entry stays in the store
CacheDelete_Keep(c, key) == c

\* index.ts:58  delete cache[cacheKey]
CacheDelete(c, key) == [k \in DOMAIN c \ {key} |-> c[k]]

\* mutant of CachePut: the payload is written over every entry of the store
CachePut_Smear(c, key, data, t) ==
    [k \in DOMAIN c \cup {key} |-> CacheEntry(data, t)]

\* mutant of CachePut: nothing is written
CachePut_Skip(c, key, data, t) == c

\* index.ts:100-103  cache[cacheKey] = { data: result, timestamp: Date.now() }
CachePut(c, key, data, t) ==
    [k \in DOMAIN c \cup {key} |-> IF k = key THEN CacheEntry(data, t) ELSE c[k]]

---------------------------------------------------------------------------
(* Tool handlers, index.ts:125-147, 162-184, 199-221 *)

\* mutant of CredentialMissing: the credential is never checked
CredentialMissing_Never(key) == FALSE

\* index.ts:40  !apiKey
CredentialMissing(key) == key = ""

\* index.ts:41
ConfigErrorMessage == "JINA_API_KEY not configured. Please set it in your .env file."

\* index.ts:93
HttpErrorMessage(status) == "Jina API error: " \o ToString(status)

\* message of the FetchError node-fetch rejects with on a transport failure
TransportErrorMessage == "request to https://r.jina.ai/ failed, reason: connect ECONNREFUSED"

\* message of the FetchError response.json() rejects with on malformed JSON
ParseErrorMessage == "invalid json response body at https://r.jina.ai/ reason: Unexpected end of JSON input"

\* the protocol envelope: content: [{ type: "text", text }]
Envelope(text) == [content |-> <<[type |-> "text", text |-> text]>>, fault |-> FALSE]

NoResponse == [content |-> <<>>, fault |-> FALSE]

\* mutant of HandlerCatch: the failure is raised again to the protocol layer
HandlerCatch_Rethrow(message) == [content |-> <<>>, fault |-> TRUE]

\* index.ts:137-146  catch (error): the failure becomes the text of a response
HandlerCatch(message) == Envelope("Error: " \o message)

\* index.ts:133  start_index || 0
StartOrZero(start_index) ==
    IF IsSome(start_index) /\ Val(start_index) # 0 THEN Val(start_index) ELSE 0

\* index.ts:129-136 inside the try of 126: a throw of the formatter is caught
HandlerReturn(result, max_length, start_index) ==
    IF FormatThrows(result)
    THEN HandlerCatch(FormatErrorMessage)
    ELSE Envelope(formatJinaResponse(result, max_length, StartOrZero(start_index)))

\* index.ts:125  engine = "none" when the argument is omitted
EngineOrDefault(engine) == IF IsSome(engine) THEN Val(engine) ELSE "none"

---------------------------------------------------------------------------
(* Inputs of the model *)

Request(tool, value, engine, max_length, start_index) ==
    [tool |-> tool, value |-> value, engine |-> engine,
     max_length |-> max_length, start_index |-> start_index]

ShortDoc == Doc("T", "", "abc", <<>>, "", 0)
MidDoc == Doc("", "", "abcdefghijklmnopqrstuvwxy", <<>>, "", 0)

\* what the upstream may answer with a 2xx status
UpstreamBodies == {NullBody, NoDataBody, MidDoc}

\* non-2xx statuses of the upstream
ErrorStatuses == {500}

\* arguments the protocol layer delivers to jina_read_url (validated by the
\* zod schema of index.ts:117-124): one URL, with and without each option
HandlerRequests ==
    { Request("jina_read_url", "https://a.example", None, None, None),
      Request("jina_read_url", "https://a.example", Some("none"), None, None),
      Request("jina_read_url", "https://a.example", Some("browser"), None, None),
      Request("jina_read_url", "https://a.example", None, Some(10), None),
      Request("jina_read_url", "https://a.example", None, None, Some(0)) }

\* requests for the three tools (index.ts:114, 151, 188): the payload alone,
\* with max_length, with a start_index of 0, with both options
ToolRequests ==
    { Request("jina_read_url", "https://a.example", None, None, None),
      Request("jina_read_html", "hello", None, Some(10), None),
      Request("jina_read_pdf", "JVBERi0x", None, None, Some(0)),
      Request("jina_read_url", "https://a.example", None, Some(10), Some(5)) }

Procs == {1, 2}

\* the clock advances in steps of half the TTL
TickStep == CACHE_TTL \div 2

---------------------------------------------------------------------------
(* State of one handler invocation: its arguments and cache key, the       *)
(* number of calls of fetch it has made and the request of the call        *)
(* (sent), whether it was answered from the cache (hit) or removed an      *)
(* expired entry (evicted), and how it ended.                              *)

IdleInv ==
    [pc |-> "idle", req |-> Request("jina_read_url", "", None, None, None),
     useCache |-> TRUE, key |-> "", calls |-> 0, hit |-> FALSE, evicted |-> FALSE,
     sent |-> NoRequest,
     outcome |-> "pending", result |-> NullBody, error |-> "",
     response |-> NoResponse, responses |-> 0]

\* the handler returns its envelope to the protocol layer
Respond(r, outcome, result, error, response) ==
    [r EXCEPT !.pc = "done", !.outcome = outcome, !.result = result,
              !.error = error, !.response = response, !.responses = @ + 1]

\* no direct call of the formatter
NoFormatCall ==
    [pc |-> "none", result |-> NullBody, max_length |-> None,
     start_index |-> None, output |-> ""]

Init ==
    /\ cache = <<>>
    /\ now = 0
    /\ apiKey \in {"", "jina_test_key"}
    /\ inv = [p \in Procs |-> IdleInv]
    /\ invocations = 0
    /\ storedBy = <<>>
    /\ fmt = NoFormatCall

\* mutant of Invoke: the cache is looked up before the credential is checked
Invoke_CacheFirst(p, req, useCache) ==
    LET engine == EngineOrDefault(req.engine)
        params == [field |-> ParamField(req.tool), value |-> req.value]
        cacheKey == CacheKey(params, engine, req.max_length, req.start_index)
        started == [IdleInv EXCEPT !.req = req, !.useCache = useCache, !.key = cacheKey]
        request == OutboundRequest(apiKey, params, engine, req.max_length, req.start_index)
    IN  /\ inv[p].pc \in {"idle", "done"}
        /\ \A q \in Procs : q < p => inv[q].pc \in {"fetching", "parsing"}
        /\ invocations < MaxInvocations
        /\ invocations' = invocations + 1
        /\ IF useCache /\ HasEntry(cache, cacheKey) /\ IsFresh(cache[cacheKey], now)
           THEN /\ inv' = [inv EXCEPT ![p] =
                       Respond([started EXCEPT !.hit = TRUE], "returned",
                               cache[cacheKey].data, "",
                               HandlerReturn(cache[cacheKey].data,
                                             req.max_length, req.start_index))]
                /\ UNCHANGED <<cache, storedBy>>
           ELSE IF useCache /\ HasEntry(cache, cacheKey)
           THEN /\ cache' = CacheDelete(cache, cacheKey)
                /\ storedBy' = CacheDelete(storedBy, cacheKey)
                /\ inv' = [inv EXCEPT ![p] =
                       IF CredentialMissing(apiKey)
                       THEN Respond(started, "threw", NullBody, ConfigErrorMessage,
                                    HandlerCatch(ConfigErrorMessage))
                       ELSE [started EXCEPT !.pc = "fetching", !.calls = 1,
                                            !.evicted = TRUE, !.sent = request]]
           ELSE /\ UNCHANGED <<cache, storedBy>>
                /\ inv' = [inv EXCEPT ![p] =
                       IF CredentialMissing(apiKey)
                       THEN Respond(started, "threw", NullBody, ConfigErrorMessage,
                                    HandlerCatch(ConfigErrorMessage))
                       ELSE [started EXCEPT !.pc = "fetching", !.calls = 1,
                                            !.sent = request]]
        /\ UNCHANGED <<now, apiKey, fmt>>

\* A handler is invoked (index.ts:125) and runs callJinaReaderAPI
\* (index.ts:31-85) up to the await of fetch at line 86, or to its return or
\* throw when it ends before that.  The invocation takes the lowest slot
\* that is not in flight (the slots are interchangeable).
Invoke(p, req, useCache) ==
    LET engine == EngineOrDefault(req.engine)
        params == [field |-> ParamField(req.tool), value |-> req.value]
        cacheKey == CacheKey(params, engine, req.max_length, req.start_index)
        started == [IdleInv EXCEPT !.req = req, !.useCache = useCache, !.key = cacheKey]
        request == OutboundRequest(apiKey, params, engine, req.max_length, req.start_index)
    IN  /\ inv[p].pc \in {"idle", "done"}
        /\ \A q \in Procs : q < p => inv[q].pc \in {"fetching", "parsing"}
        /\ invocations < MaxInvocations
        /\ invocations' = invocations + 1
        /\ IF CredentialMissing(apiKey)
           THEN \* index.ts:40-42
                /\ inv' = [inv EXCEPT ![p] =
                       Respond(started, "threw", NullBody, ConfigErrorMessage,
                               HandlerCatch(ConfigErrorMessage))]
                /\ UNCHANGED <<cache, storedBy>>
           ELSE IF useCache /\ HasEntry(cache, cacheKey)
           THEN IF IsFresh(cache[cacheKey], now)
                THEN \* index.ts:53-55
                     /\ inv' = [inv EXCEPT ![p] =
                            Respond([started EXCEPT !.hit = TRUE], "returned",
                                    cache[cacheKey].data, "",
                                    HandlerReturn(cache[cacheKey].data,
                                                  req.max_length, req.start_index))]
                     /\ UNCHANGED <<cache, storedBy>>
                ELSE \* index.ts:56-59, then 62-90
                     /\ cache' = CacheDelete(cache, cacheKey)
                     /\ storedBy' = CacheDelete(storedBy, cacheKey)
                     /\ inv' = [inv EXCEPT ![p] =
                            [started EXCEPT !.pc = "fetching", !.calls = 1,
                                            !.evicted = TRUE, !.sent = request]]
           ELSE \* index.ts:62-90
                /\ UNCHANGED <<cache, storedBy>>
                /\ inv' = [inv EXCEPT ![p] =
                       [started EXCEPT !.pc = "fetching", !.calls = 1,
                                       !.sent = request]]
        /\ UNCHANGED <<now, apiKey, fmt>>

\* a tool call arrives: the handlers call callJinaReaderAPI with four
\* arguments, so useCache takes its default, true (index.ts:36)
HandlerInvoke(p) ==
    \E req \in HandlerRequests : Invoke(p, req, TRUE)

\* index.ts:86-92  fetch resolves with a 2xx response
FetchOk(p) ==
    /\ inv[p].pc = "fetching"
    /\ inv' = [inv EXCEPT ![p].pc = "parsing"]
    /\ UNCHANGED <<cache, now, apiKey, invocations, storedBy, fmt>>

\* index.ts:92-94, 107-110, 137-146  fetch resolves with a non-2xx response
FetchNotOk(p) ==
    /\ inv[p].pc = "fetching"
    /\ \E status \in ErrorStatuses :
          inv' = [inv EXCEPT ![p] =
              Respond(@, "threw", NullBody, HttpErrorMessage(status),
                      HandlerCatch(HttpErrorMessage(status)))]
    /\ UNCHANGED <<cache, now, apiKey, invocations, storedBy, fmt>>

\* mutant of FetchRejects: a failed call is issued again
FetchRejects_Retry(p) ==
    /\ inv[p].pc = "fetching"
    /\ inv' = [inv EXCEPT ![p].calls = @ + 1]
    /\ UNCHANGED <<cache, now, apiKey, invocations, storedBy, fmt>>

\* index.ts:86, 107-110, 137-146  fetch rejects (transport failure)
FetchRejects(p) ==
    /\ inv[p].pc = "fetching"
    /\ inv' = [inv EXCEPT ![p] =
           Respond(@, "threw", NullBody, TransportErrorMessage,
                   HandlerCatch(TransportErrorMessage))]
    /\ UNCHANGED <<cache, now, apiKey, invocations, storedBy, fmt>>

\* mutant of JsonResolves: the payload is stored whatever useCache is
JsonResolves_AlwaysStores(p, body) ==
    LET response == HandlerReturn(body, inv[p].req.max_length, inv[p].req.start_index)
    IN  /\ inv[p].pc = "parsing"
        /\ cache' = CachePut(cache, inv[p].key, body, now)
        /\ storedBy' = [k \in DOMAIN storedBy \cup {inv[p].key} |->
                           IF k = inv[p].key
                           THEN [req |-> inv[p].req, response |-> response]
                           ELSE storedBy[k]]
        /\ inv' = [inv EXCEPT ![p] = Respond(@, "returned", body, "", response)]
        /\ UNCHANGED <<now, apiKey, invocations, fmt>>

\* index.ts:96-106, 129-136  response.json() resolves with the parsed body
JsonResolves(p, body) ==
    LET response == HandlerReturn(body, inv[p].req.max_length, inv[p].req.start_index)
    IN  /\ inv[p].pc = "parsing"
        /\ IF inv[p].useCache
           THEN /\ cache' = CachePut(cache, inv[p].key, body, now)
                /\ storedBy' = [k \in DOMAIN storedBy \cup {inv[p].key} |->
                                   IF k = inv[p].key
                                   THEN [req |-> inv[p].req, response |-> response]
                                   ELSE storedBy[k]]
           ELSE UNCHANGED <<cache, storedBy>>
        /\ inv' = [inv EXCEPT ![p] = Respond(@, "returned", body, "", response)]
        /\ UNCHANGED <<now, apiKey, invocations, fmt>>

JsonParsed(p) ==
    \E body \in UpstreamBodies : JsonResolves(p, body)

\* mutant of JsonFails: after malformed JSON the request is made again
JsonFails_Refetch(p) ==
    /\ inv[p].pc = "parsing"
    /\ inv' = [inv EXCEPT ![p].pc = "fetching"]
    /\ UNCHANGED <<cache, now, apiKey, invocations, storedBy, fmt>>

\* mutant of JsonFails: the failure also empties the cache
JsonFails_Evicts(p) ==
    /\ inv[p].pc = "parsing"
    /\ inv' = [inv EXCEPT ![p] =
           Respond(@, "threw", NullBody, ParseErrorMessage,
                   HandlerCatch(ParseErrorMessage))]
    /\ cache' = <<>>
    /\ storedBy' = <<>>
    /\ UNCHANGED <<now, apiKey, invocations, fmt>>

\* index.ts:96, 107-110, 137-146  response.json() rejects (malformed JSON)
JsonFails(p) ==
    /\ inv[p].pc = "parsing"
    /\ inv' = [inv EXCEPT ![p] =
           Respond(@, "threw", NullBody, ParseErrorMessage,
                   HandlerCatch(ParseErrorMessage))]
    /\ UNCHANGED <<cache, now, apiKey, invocations, storedBy, fmt>>

\* time passes
Tick ==
    /\ now + TickStep <= MaxClock * TickStep
    /\ now' = now + TickStep
    /\ UNCHANGED <<cache, apiKey, inv, invocations, storedBy, fmt>>

Next ==
    \/ \E p \in Procs : HandlerInvoke(p)
    \/ \E p \in Procs : FetchOk(p)
    \/ \E p \in Procs : FetchNotOk(p)
    \/ \E p \in Procs : FetchRejects(p)
    \/ \E p \in Procs : JsonParsed(p)
    \/ \E p \in Procs : JsonFails(p)
    \/ Tick

Spec == Init /\ [][Next]_vars

\* a tool call arrives at any of the three handlers
ToolInvoke(p) ==
    \E req \in ToolRequests : Invoke(p, req, TRUE)

NextTools ==
    \/ \E p \in Procs : ToolInvoke(p)
    \/ \E p \in Procs : FetchOk(p)
    \/ \E p \in Procs : FetchNotOk(p)
    \/ \E p \in Procs : FetchRejects(p)
    \/ \E p \in Procs : JsonParsed(p)
    \/ \E p \in Procs : JsonFails(p)
    \/ Tick

\* the three handlers
SpecTools == Init /\ [][NextTools]_vars

\* index.ts:38  process.env.JINA_API_KEY is read anew by every call: between
\* two calls the variable may have been set or removed in the environment
\* of the process
CredentialChanges ==
    /\ apiKey' \in {"", "jina_test_key"} \ {apiKey}
    /\ UNCHANGED <<cache, now, inv, invocations, storedBy, fmt>>

NextEnv ==
    \/ \E p \in Procs : ToolInvoke(p)
    \/ \E p \in Procs : FetchOk(p)
    \/ \E p \in Procs : FetchNotOk(p)
    \/ \E p \in Procs : FetchRejects(p)
    \/ \E p \in Procs : JsonParsed(p)
    \/ \E p \in Procs : JsonFails(p)
    \/ Tick
    \/ CredentialChanges

\* the handlers in a process whose environment changes while it runs
SpecEnv == Init /\ [][NextEnv]_vars

\* arguments of calls of callJinaReaderAPI that say whether to use the cache
CallRequests ==
    { Request("jina_read_url", "https://a.example", None, None, None),
      Request("jina_read_url", "https://a.example", None, Some(10), None) }

\* index.ts:31-37  callJinaReaderAPI is called with its fifth argument
\* given, useCache true or false
CallWithUseCache(p) ==
    \E req \in CallRequests, useCache \in BOOLEAN : Invoke(p, req, useCache)

NextCalls ==
    \/ \E p \in Procs : CallWithUseCache(p)
    \/ \E p \in Procs : FetchOk(p)
    \/ \E p \in Procs : FetchNotOk(p)
    \/ \E p \in Procs : FetchRejects(p)
    \/ \E p \in Procs : JsonParsed(p)
    \/ \E p \in Procs : JsonFails(p)
    \/ Tick

\* callJinaReaderAPI over its whole signature, with and without the cache
SpecCalls == Init /\ [][NextCalls]_vars

---------------------------------------------------------------------------
(* The formatter on its own: formatJinaResponse(result, max_length?,       *)
(* start_index = 0) applied to inputs over its whole signature, also the   *)
(* lengths the tool schemas reject (zero and negative max_length).         *)

\* 24998 characters, no two windows of 20000 alike
LongContent == Repeat("a", 10000) \o Repeat("b", 10000) \o Repeat("c", 4998)

\* assembled text of 25000 characters
LongDoc == Doc("", "", LongContent, <<>>, "", 0)

FullDoc ==
    Doc("Title", "About", "body text",
        << <<"Example", "https://example.com">>, <<"Docs", "https://docs.example">> >>,
        "cached snapshot", 42)

BlankDescDoc == Doc("T", "  ", "abc", <<>>, "", 0)

EmptyDoc == Doc("", "", "", <<>>, "", 0)

FormatBodies ==
    {NullBody, NoDataBody, EmptyDoc, ShortDoc, MidDoc, BlankDescDoc, FullDoc, LongDoc}

FormatMaxLengths == {None, Some(-5), Some(0), Some(10), Some(20000), Some(30000)}

FormatStartIndexes == {None, Some(0), Some(5), Some(10), Some(5000)}

\* index.ts:225  start_index: number = 0
StartOrDefault(start_index) == IF IsSome(start_index) THEN Val(start_index) ELSE 0

InitFormat ==
    /\ cache = <<>>
    /\ now = 0
    /\ apiKey = ""
    /\ inv = [p \in Procs |-> IdleInv]
    /\ invocations = 0
    /\ storedBy = <<>>
    /\ \E result \in FormatBodies, max_length \in FormatMaxLengths,
          start_index \in FormatStartIndexes :
          fmt = [pc |-> "called", result |-> result, max_length |-> max_length,
                 start_index |-> start_index, output |-> ""]

\* index.ts:225-289  the call runs to its return, or to the TypeError of 228
FormatCall ==
    /\ fmt.pc = "called"
    /\ fmt' = IF FormatThrows(fmt.result)
              THEN [fmt EXCEPT !.pc = "threw"]
              ELSE [fmt EXCEPT !.pc = "returned",
                       !.output = formatJinaResponse(fmt.result, fmt.max_length,
                                                     StartOrDefault(fmt.start_index))]
    /\ UNCHANGED <<cache, now, apiKey, inv, invocations, storedBy>>

NextFormat == FormatCall

SpecFormat == InitFormat /\ [][NextFormat]_vars

---------------------------------------------------------------------------
(* A client that pages through a document (README, "Pagination"): it       *)
(* starts at start_index 0 and re-requests with the same max_length and    *)
(* the start_index the previous trailer suggests, against an upstream that *)
(* answers every request for a URL with the same payload.                  *)

PageUrls == {"https://a.example", "https://long.example"}

\* the payload the upstream serves for a URL, on every request
UpstreamPage(url) == IF url = "https://long.example" THEN LongDoc ELSE MidDoc

PageMaxLengths == {None, Some(10)}

DigitValue(c) ==
    CASE c = "0" -> 0 [] c = "1" -> 1 [] c = "2" -> 2 [] c = "3" -> 3 [] c = "4" -> 4
      [] c = "5" -> 5 [] c = "6" -> 6 [] c = "7" -> 7 [] c = "8" -> 8 [] c = "9" -> 9

IsDigit(c) == c \in {"0", "1", "2", "3", "4", "5", "6", "7", "8", "9"}

\* the decimal number that starts at character i (from 0) of a text
RECURSIVE ParseNat(_, _, _)
ParseNat(text, i, acc) ==
    IF i < Len(text) /\ IsDigit(SubSeq(text, i + 1, i + 1))
    THEN ParseNat(text, i + 1, 10 * acc + DigitValue(SubSeq(text, i + 1, i + 1)))
    ELSE acc

\* the trailer is within the last characters of a response
TrailerPart(text) == Substring(text, Len(text) - 400, Len(text))

SuggestionMark == "- To view the next section, use start_index="

HasSuggestion(text) ==
    \E i \in 0 .. (Len(TrailerPart(text)) - Len(SuggestionMark)) :
        Substring(TrailerPart(text), i, i + Len(SuggestionMark)) = SuggestionMark

\* the start_index a clipped response suggests for the next request
SuggestedStart(text) ==
    LET part == TrailerPart(text)
        at == CHOOSE i \in 0 .. (Len(part) - Len(SuggestionMark)) :
                  Substring(part, i, i + Len(SuggestionMark)) = SuggestionMark
    IN  ParseNat(part, at + Len(SuggestionMark), 0)

InitPaginate ==
    /\ cache = <<>>
    /\ now = 0
    /\ apiKey = "jina_test_key"
    /\ inv = [p \in Procs |-> IdleInv]
    /\ invocations = 0
    /\ storedBy = <<>>
    /\ fmt = NoFormatCall

\* the first request of a client: start_index is 0, given or by default
PageFirst(p) ==
    /\ inv[p].pc = "idle"
    /\ \E url \in PageUrls, max_length \in PageMaxLengths, start_index \in {None, Some(0)} :
          Invoke(p, Request("jina_read_url", url, None, max_length, start_index), TRUE)

\* the client follows the trailer of the response it got
PageNext(p) ==
    /\ inv[p].pc = "done"
    /\ inv[p].outcome = "returned"
    /\ HasSuggestion(inv[p].response.content[1].text)
    /\ Invoke(p, [inv[p].req EXCEPT
                     !.start_index = Some(SuggestedStart(inv[p].response.content[1].text))],
              TRUE)

\* the upstream answers with the payload of the URL
PageServed(p) ==
    JsonResolves(p, UpstreamPage(inv[p].req.value))

NextPaginate ==
    \/ \E p \in Procs : PageFirst(p)
    \/ \E p \in Procs : PageNext(p)
    \/ \E p \in Procs : FetchOk(p)
    \/ \E p \in Procs : PageServed(p)
    \/ Tick

SpecPaginate == InitPaginate /\ [][NextPaginate]_vars

---------------------------------------------------------------------------
(* Properties of the formatter, checked under SpecFormat *)

\* the first n characters of a text
FirstChars(text, n) == IF n <= 0 THEN "" ELSE SubSeq(text, 1, IF n < Len(text) THEN n ELSE Len(text))

\* the text that follows the first n characters
AfterChars(text, n) == IF n >= Len(text) THEN "" ELSE SubSeq(text, (IF n < 0 THEN 0 ELSE n) + 1, Len(text))

Contains(text, part) ==
    \E i \in 0 .. (Len(text) - Len(part)) : SubSeq(text, i + 1, i + Len(part)) = part

\* the formatter has returned from a call with this result and these arguments
Formatted(result, max_length, start_index) ==
    /\ fmt.pc = "returned"
    /\ fmt.result = result
    /\ fmt.max_length = max_length
    /\ fmt.start_index = start_index

\* the trailer of a clipped page that reports the range from-to of total
\* characters and suggests next as the next start_index
ClippedNotice(from, to, total, next) ==
    "\n\n---\n[PAGINATION INFO]\n"
    \o "- Content clipped: Currently showing characters " \o ToString(from)
    \o "-" \o ToString(to) \o " of approximately " \o ToString(total) \o " total\n"
    \o "- To view the next section, use start_index=" \o ToString(next)
    \o " with the same max_length\n"
    \o "- Complete content can be accessed by making multiple paginated requests\n"

\* the trailer that reports the range from-to and marks the end of the content
EndNotice(from, to) ==
    "\n\n---\n[PAGINATION INFO]\n"
    \o "- Showing characters " \o ToString(from) \o "-" \o ToString(to)
    \o " of the document\n"
    \o "- This appears to be the end of the content\n"

\* C3: whenever the assembled text is longer than the effective window
\* length L, the output is characters [0, L) of the assembled text, whatever
\* the start index s, followed by a trailer that reports the range s to s+L,
\* the total assembled length and the next start_index s+L.
C3_TruncationBranch ==
    fmt.pc = "returned" =>
        LET text == Assemble(fmt.result)
            L == EffectiveMaxLength(fmt.max_length)
            s == StartOrDefault(fmt.start_index)
        IN  Len(text) > L =>
                fmt.output = FirstChars(text, L) \o ClippedNotice(s, s + L, Len(text), s + L)

\* a text of 25000 characters, the default window and start index 5000: the
\* page holds the first 20000 characters and reports 5000-25000 of 25000
C3_Witness ==
    /\ Formatted(LongDoc, None, Some(5000))
    /\ Len(Assemble(LongDoc)) = 25000
    /\ FirstChars(fmt.output, 20000) = Repeat("a", 10000) \o Repeat("b", 10000)
    /\ Contains(AfterChars(fmt.output, 20000), "showing characters 5000-25000 of approximately 25000 total")

\* the window of the original statement of C9: maxLength when it is given
\* and positive, 20000 otherwise
WindowPositiveOrDefault(max_length) ==
    IF IsSome(max_length) /\ Val(max_length) > 0 THEN Val(max_length) ELSE 20000

\* the window of the amended C9: maxLength when it is given and not zero,
\* 20000 otherwise
WindowNonZeroOrDefault(max_length) ==
    IF IsSome(max_length) /\ Val(max_length) # 0 THEN Val(max_length) ELSE 20000

\* the output shows that the window length was W: the text is clipped if and
\* only if it is longer than W, and a clipped page holds its first W
\* characters
WindowShown(W) ==
    LET text == Assemble(fmt.result)
        clipMark == "\n\n---\n[PAGINATION INFO]\n- Content clipped:"
    IN  IF Len(text) > W
        THEN /\ FirstChars(fmt.output, W) = FirstChars(text, W)
             /\ StartsWith(AfterChars(fmt.output, W), clipMark)
        ELSE /\ FirstChars(fmt.output, Len(text)) = text
             /\ ~StartsWith(AfterChars(fmt.output, Len(text)), clipMark)

\* C9 as stated: the effective window length is maxLength when maxLength is
\* provided and positive, and the default 20000 when it is absent, zero or
\* negative.
C9_WindowAsStated ==
    fmt.pc = "returned" => WindowShown(WindowPositiveOrDefault(fmt.max_length))

\* C9 (amended): the effective window length is maxLength when maxLength is
\* provided and not zero (a negative maxLength is used as it is, so that
\* every text is longer than the window and the page holds no character),
\* and the default 20000 when it is absent or zero.
C9_WindowNonZero ==
    fmt.pc = "returned" => WindowShown(WindowNonZeroOrDefault(fmt.max_length))

\* a negative maxLength is not replaced by the default: a text of 10
\* characters is clipped to nothing
C9_Witness ==
    /\ Formatted(ShortDoc, Some(-5), Some(0))
    /\ Len(Assemble(ShortDoc)) = 10
    /\ StartsWith(fmt.output, "\n\n---\n[PAGINATION INFO]\n- Content clipped:")

\* C10: whenever the assembled text of length total is at most the effective
\* window length, the full assembled text is returned unmodified; a trailer
\* is appended if and only if startIndex > 0, and it reports the range
\* startIndex to startIndex + total and marks the end of the content.
C10_NonTruncatingBranches ==
    fmt.pc = "returned" =>
        LET text == Assemble(fmt.result)
            L == EffectiveMaxLength(fmt.max_length)
            s == StartOrDefault(fmt.start_index)
        IN  Len(text) <= L =>
                /\ FirstChars(fmt.output, Len(text)) = text
                /\ s > 0 => AfterChars(fmt.output, Len(text)) = EndNotice(s, s + Len(text))
                /\ ~(s > 0) => fmt.output = text

\* a short text read from start index 5 keeps all its characters and gets
\* the end-of-content trailer 5-15
C10_Witness ==
    /\ Formatted(ShortDoc, Some(10), Some(5))
    /\ StartsWith(fmt.output, "# T\n\nabc\n\n")
    /\ Contains(fmt.output, "- Showing characters 5-15 of the document\n")
    /\ EndsWith(fmt.output, "- This appears to be the end of the content\n")

---------------------------------------------------------------------------
(* Properties of the handlers, the upstream client and the cache, checked  *)
(* under Spec (C6 and C7 under SpecTools)                                  *)

\* the TTL of the README and of the specification: 3 hours, in milliseconds
ThreeHours == 3 * 60 * 60 * 1000

\* slot p is dispatched in this step: a new invocation starts in it (the
\* lowest slot that is not in flight)
Dispatched(p) ==
    /\ invocations' = invocations + 1
    /\ inv[p].pc \in {"idle", "done"}
    /\ \A q \in Procs : q < p => inv[q].pc \in {"fetching", "parsing"}

\* the text of the single block of a response
TextOf(response) == response.content[1].text

\* the engine a request asks for: the default one when it names none
EngineOf(req) == IF req.engine = <<>> THEN "none" ELSE req.engine[1]

\* C1: while the store holds an entry for key k stored at time t, a call
\* with key k, caching enabled and the credential configured, made at a time
\* now with now - t < 3 hours returns the stored payload, leaves the entry
\* as it is and issues no upstream call; a call made at now - t >= 3 hours
\* behaves as a miss and issues a fresh upstream call.
C1_CacheTTL ==
    [][\A p \in Procs :
          (Dispatched(p) /\ apiKey # "" /\ inv'[p].useCache /\ inv'[p].key \in DOMAIN cache) =>
              LET k == inv'[p].key
                  entry == cache[k]
              IN  IF now - entry.timestamp < ThreeHours
                  THEN /\ inv'[p].pc = "done"
                       /\ inv'[p].outcome = "returned"
                       /\ inv'[p].result = entry.data
                       /\ inv'[p].calls = 0
                       /\ k \in DOMAIN cache' /\ cache'[k] = entry
                  ELSE /\ inv'[p].pc = "fetching"
                       /\ inv'[p].calls = 1
                       /\ inv'[p].outcome = "pending"]_vars

\* a call made half a TTL after the entry was stored is answered from it
C1_Witness ==
    \E p \in Procs :
        /\ inv[p].pc = "done" /\ inv[p].hit /\ inv[p].calls = 0
        /\ inv[p].key \in DOMAIN cache
        /\ inv[p].result = MidDoc /\ cache[inv[p].key].data = MidDoc
        /\ now - cache[inv[p].key].timestamp = ThreeHours \div 2

\* C4: a request is never answered from an entry stored by a request with
\* a different startIndex, maxLength or engine (or payload).
C4_KeysSeparateWindowsAndEngines ==
    \A p \in Procs :
        (inv[p].pc = "done" /\ inv[p].hit) =>
            /\ inv[p].key \in DOMAIN storedBy
            /\ LET mine == inv[p].req
                   theirs == storedBy[inv[p].key].req
               IN  /\ theirs.start_index = mine.start_index
                   /\ theirs.max_length = mine.max_length
                   /\ EngineOf(theirs) = EngineOf(mine)
                   /\ theirs.tool = mine.tool
                   /\ theirs.value = mine.value

\* while the entry of the request without start_index is live, the request
\* for the same URL with start_index 0 is looked up and misses
C4_Witness ==
    \E p \in Procs, k \in DOMAIN storedBy :
        /\ inv[p].pc = "fetching" /\ inv[p].calls = 1
        /\ inv[p].req = Request("jina_read_url", "https://a.example", None, None, Some(0))
        /\ storedBy[k].req = Request("jina_read_url", "https://a.example", None, None, None)
        /\ k \in DOMAIN cache /\ cache[k].data = MidDoc /\ now - cache[k].timestamp < ThreeHours

\* C5 as stated: every invocation that is not a cache hit issues exactly one
\* outbound upstream call, and a cache hit issues none.
C5_OneCallUnlessHit ==
    \A p \in Procs :
        /\ inv[p].calls <= 1
        /\ (inv[p].pc = "done" /\ inv[p].hit) => inv[p].calls = 0
        /\ (inv[p].pc = "done" /\ ~inv[p].hit) => inv[p].calls = 1

\* C5 (amended): every invocation made with the credential configured that
\* is not a cache hit issues exactly one outbound upstream call; a cache hit
\* and an invocation made without the credential issue none; an invocation
\* never issues two calls, and a failed call is surfaced to the caller
\* without a second attempt.
C5_OneCallUnlessHitOrNoCredential ==
    \A p \in Procs :
        /\ inv[p].calls <= 1
        /\ (inv[p].pc = "done" /\ inv[p].hit) => inv[p].calls = 0
        /\ (inv[p].pc # "idle" /\ apiKey = "") => inv[p].calls = 0
        /\ (inv[p].pc # "idle" /\ apiKey # "" /\ ~inv[p].hit) => inv[p].calls = 1
        /\ inv[p].pc \in {"fetching", "parsing"} => inv[p].outcome = "pending"

\* an upstream call failed with status 500 and the invocation ended with
\* that one call
C5_Witness ==
    \E p \in Procs :
        /\ inv[p].pc = "done" /\ inv[p].outcome = "threw"
        /\ inv[p].error = "Jina API error: 500"
        /\ inv[p].calls = 1

\* C6: every invocation of read-url, read-html or read-pdf that completes,
\* whatever the upstream did, completes with a normal response holding a
\* single text block that is either the formatted extraction or the string
\* "Error: " followed by the failure message.
C6_HandlersNeverRaise ==
    \A p \in Procs :
        inv[p].pc = "done" =>
            /\ ~inv[p].response.fault
            /\ inv[p].responses = 1
            /\ Len(inv[p].response.content) = 1
            /\ inv[p].response.content[1].type = "text"
            /\ IF inv[p].outcome = "threw"
               THEN TextOf(inv[p].response) = "Error: " \o inv[p].error
               ELSE IF inv[p].result.json = "null"
               THEN /\ StartsWith(TextOf(inv[p].response), "Error: ")
                    /\ Len(TextOf(inv[p].response)) > Len("Error: ")
               ELSE /\ ~StartsWith(TextOf(inv[p].response), "Error: ")
                    /\ StartsWith(TextOf(inv[p].response),
                                  FirstChars(Assemble(inv[p].result),
                                             EffectiveMaxLength(inv[p].req.max_length)))

\* read-pdf got malformed JSON from the upstream and answered with the text
\* of the parse failure
C6_Witness ==
    \E p \in Procs :
        /\ inv[p].pc = "done"
        /\ inv[p].req.tool = "jina_read_pdf"
        /\ inv[p].calls = 1
        /\ StartsWith(TextOf(inv[p].response), "Error: invalid json response body")

\* C7: when no API credential is configured, every handler invocation
\* returns an "Error: " text response carrying the configuration-error
\* message and issues no upstream call.
C7_MissingCredential ==
    apiKey = "" =>
        \A p \in Procs :
            /\ inv[p].pc \in {"idle", "done"}
            /\ inv[p].calls = 0
            /\ inv[p].pc = "done" =>
                   /\ TextOf(inv[p].response) =
                          "Error: JINA_API_KEY not configured. Please set it in your .env file."
                   /\ ~inv[p].hit

\* read-html was invoked without the credential and has answered
C7_Witness ==
    /\ apiKey = ""
    /\ \E p \in Procs :
          /\ inv[p].pc = "done"
          /\ inv[p].req.tool = "jina_read_html"
          /\ StartsWith(TextOf(inv[p].response), "Error: JINA_API_KEY not configured")

\* C8: for a result without a data field the formatter returns exactly the
\* literal "No content extracted or unexpected response format.", with no
\* trailer and no truncation, for every maxLength and every startIndex.
C8_NoPayloadLiteral ==
    \A p \in Procs :
        (inv[p].pc = "done" /\ inv[p].outcome = "returned"
            /\ inv[p].result.json = "object" /\ ~inv[p].result.hasData) =>
                TextOf(inv[p].response) = "No content extracted or unexpected response format."

---------------------------------------------------------------------------
(* Properties of the paging client, checked under SpecPaginate *)

\* C2: a client that starts at start_index 0 and follows the suggested
\* start_index with the same max_length, against an upstream that returns
\* the same payload on every request, is shown the content starting at the
\* requested character index each time (and so reaches the end of the
\* content): the page of a request with start index s and window L holds
\* the characters [s, s+L) of the assembled text.
C2_PagesAdvance ==
    \A p \in Procs :
        (inv[p].pc = "done" /\ inv[p].outcome = "returned") =>
            LET text == Assemble(inv[p].result)
                s == IF inv[p].req.start_index = <<>> THEN 0 ELSE inv[p].req.start_index[1]
                L == IF inv[p].req.max_length = <<>> THEN 20000 ELSE inv[p].req.max_length[1]
                page == Substring(text, s, s + L)
            IN  FirstChars(inv[p].response.content[1].text, Len(page)) = page

\* the line that opens every pagination trailer
TrailerMark == "\n\n---\n[PAGINATION INFO]\n"

\* the index at which the pagination trailer of a response starts, or the
\* length of the text when it has none
TrailerAt(text) ==
    LET part == TrailerPart(text)
        offset == Len(text) - Len(part)
        marks == {i \in 0 .. (Len(part) - Len(TrailerMark)) :
                     Substring(part, i, i + Len(TrailerMark)) = TrailerMark}
    IN  IF marks = {} THEN Len(text)
        ELSE offset + (CHOOSE i \in marks : \A j \in marks : i <= j)

\* the content part of a response: the text before its pagination trailer
ContentPart(text) == FirstChars(text, TrailerAt(text))

\* C11: the content part of a tool response (the text before any pagination
\* trailer) is at most max_length characters long, or at most 20000 when
\* max_length is not given; an assembled text longer than that is clipped to
\* its first characters and the clipping is announced by a trailer.
C11_OutputBound ==
    \A p \in Procs :
        (inv[p].pc = "done" /\ inv[p].outcome = "returned" /\ inv[p].result.json # "null") =>
            LET text == TextOf(inv[p].response)
                full == Assemble(inv[p].result)
                L == IF inv[p].req.max_length = <<>> THEN 20000 ELSE inv[p].req.max_length[1]
                content == ContentPart(text)
            IN  /\ Len(content) <= L
                /\ Len(full) > L =>
                       /\ content = FirstChars(full, L)
                       /\ StartsWith(AfterChars(text, Len(content)),
                                     TrailerMark \o "- Content clipped:")
                /\ Len(full) <= L => content = full

\* a document of 25000 characters requested without max_length: the response
\* holds 20000 characters of content and then the trailer of a clipped page
C11_Witness ==
    \E p \in Procs :
        /\ inv[p].pc = "done" /\ inv[p].outcome = "returned"
        /\ inv[p].req.value = "https://long.example" /\ inv[p].req.max_length = <<>>
        /\ Len(Assemble(inv[p].result)) = 25000
        /\ Len(ContentPart(TextOf(inv[p].response))) = 20000
        /\ Len(TextOf(inv[p].response)) > 20000

---------------------------------------------------------------------------
(* Properties of concurrent invocations and of the cache, checked under    *)
(* Spec                                                                    *)

\* the invocation in slot p has ended with the payload of an upstream call
\* of its own
ReturnedOwnCall(p) ==
    inv[p].pc = "done" /\ inv[p].outcome = "returned" /\ ~inv[p].hit

\* C12: when several invocations with the same cache key are in flight at
\* once, each of them issues at most one upstream call, each returns the
\* payload of its own call, and after all of them have finished the cache
\* holds one entry for that key whose payload is the response of one of
\* those calls, whole and with a time of the clock.
C12_SameKeyRace ==
    /\ \A p \in Procs : inv[p].calls <= 1
    /\ \A p \in Procs :
          ReturnedOwnCall(p) =>
              /\ inv[p].calls = 1
              /\ inv[p].result \in UpstreamBodies
              /\ inv[p].response =
                     HandlerReturn(inv[p].result, inv[p].req.max_length, inv[p].req.start_index)
    /\ \A p, q \in Procs :
          (p # q /\ ReturnedOwnCall(p) /\ ReturnedOwnCall(q) /\ inv[p].key = inv[q].key) =>
              LET k == inv[p].key
              IN  /\ k \in DOMAIN cache
                  /\ DOMAIN cache[k] = {"data", "timestamp"}
                  /\ cache[k].data \in {inv[p].result, inv[q].result}
                  /\ cache[k].timestamp \in 0 .. now

\* two invocations with one key were in flight together (the clock has not
\* moved, so the second did not find the entry of the first), their calls
\* were answered with different payloads, each returned its own and the
\* entry holds one of the two
C12_Witness ==
    /\ now = 0
    /\ ReturnedOwnCall(1) /\ ReturnedOwnCall(2)
    /\ inv[1].key = inv[2].key
    /\ inv[1].calls = 1 /\ inv[2].calls = 1
    /\ inv[1].result = MidDoc /\ inv[2].result = NoDataBody
    /\ TextOf(inv[1].response) = Assemble(MidDoc)
    /\ TextOf(inv[2].response) = "No content extracted or unexpected response format."
    /\ cache[inv[1].key].data = MidDoc

\* the invocation in slot p takes a step
Steps(p) == Dispatched(p) \/ inv'[p] # inv[p]

\* the step of slot p is the successful end of its upstream call
StepsToPayload(p) ==
    inv[p].pc = "parsing" /\ inv'[p].pc = "done" /\ inv'[p].outcome = "returned"

\* the step of slot p is the failure of its upstream call
StepsToFailure(p) ==
    inv[p].pc \in {"fetching", "parsing"} /\ inv'[p].pc = "done" /\ inv'[p].outcome = "threw"

\* C13: an invocation whose upstream call fails (non-2xx status, transport
\* failure or JSON parse failure) creates and overwrites no cache entry,
\* leaves every live entry that existed before it with the same payload and
\* timestamp, and does not change the response of any other invocation
\* running concurrently: the failing step changes nothing but the failed
\* invocation, and no step of an invocation other than the successful end
\* of its call creates or changes an entry or touches a live one.
C13_FailureIsolation ==
    [][\A p \in Procs :
          /\ StepsToFailure(p) =>
                 /\ cache' = cache
                 /\ inv'[p].calls = 1
                 /\ StartsWith(TextOf(inv'[p].response), "Error: ")
                 /\ \A q \in Procs \ {p} : inv'[q] = inv[q]
          /\ (Steps(p) /\ ~StepsToPayload(p)) =>
                 /\ \A k \in DOMAIN cache' : k \in DOMAIN cache /\ cache'[k] = cache[k]
                 /\ \A k \in DOMAIN cache :
                        now - cache[k].timestamp < ThreeHours =>
                            k \in DOMAIN cache' /\ cache'[k] = cache[k]
                 /\ \A q \in Procs \ {p} : inv'[q] = inv[q]]_vars

\* an entry was stored, and then an invocation for another key (both ran one
\* after the other in slot 1) got malformed JSON: the entry is as it was and
\* the failed invocation has none
C13_Witness ==
    /\ inv[2].pc = "idle"
    /\ inv[1].pc = "done" /\ inv[1].outcome = "threw" /\ inv[1].calls = 1
    /\ inv[1].error = ParseErrorMessage
    /\ inv[1].key \notin DOMAIN cache
    /\ \E k \in DOMAIN cache :
          /\ cache[k] = [data |-> MidDoc, timestamp |-> 0]
          /\ now - cache[k].timestamp < ThreeHours

\* C14: a cache-enabled lookup that finds an entry for its key with
\* now - storedAt >= TTL removes that entry before the upstream call is
\* issued; no other step removes an entry, so an entry under key k leaves
\* the store only by an expired lookup of k itself, and a lookup of k never
\* removes or changes an entry under a different key.
C14_LazyExpiryOnly ==
    [][/\ \A p \in Procs :
            (Dispatched(p) /\ apiKey # "" /\ inv'[p].useCache
                /\ inv'[p].key \in DOMAIN cache
                /\ now - cache[inv'[p].key].timestamp >= ThreeHours) =>
                    /\ inv'[p].key \notin DOMAIN cache'
                    /\ inv'[p].pc = "fetching" /\ inv'[p].calls = 1
       /\ \A k \in DOMAIN cache \ DOMAIN cache' :
            /\ now - cache[k].timestamp >= ThreeHours
            /\ \E p \in Procs :
                  Dispatched(p) /\ inv'[p].useCache /\ inv'[p].key = k
       /\ \A p \in Procs :
            Dispatched(p) =>
                /\ DOMAIN cache' \subseteq DOMAIN cache
                /\ \A k \in DOMAIN cache \ {inv'[p].key} :
                      k \in DOMAIN cache' /\ cache'[k] = cache[k]]_vars

\* a lookup found the entry of its key a whole TTL old and removed it: its
\* upstream call is in flight and the store holds no entry for the key
C14_Witness ==
    \E p \in Procs :
        /\ inv[p].pc = "fetching" /\ inv[p].evicted /\ inv[p].calls = 1
        /\ inv[p].key \notin DOMAIN cache
        /\ now = ThreeHours

\* the start index a request asks for: 0 when it names none
StartOf(req) == IF req.start_index = <<>> THEN 0 ELSE req.start_index[1]

\* two requests are the same once every omitted optional has taken its
\* default: same tool and payload, same engine, same maxLength, same
\* startIndex
LogicallyIdentical(a, b) ==
    /\ a.tool = b.tool /\ a.value = b.value
    /\ EngineOf(a) = EngineOf(b)
    /\ a.max_length = b.max_length
    /\ StartOf(a) = StartOf(b)

\* C15: two handler invocations with the same payload, the same engine, the
\* same maxLength and the same startIndex derive the same key, also when
\* they are the same only because an omitted optional takes its default
\* (engine omitted or "none", startIndex omitted or 0); the second of two
\* such invocations within the TTL is a cache hit.
C15_DefaultsShareKey ==
    [][\A p \in Procs :
          (Dispatched(p) /\ apiKey # "") =>
              \A k \in DOMAIN cache :
                  (now - cache[k].timestamp < ThreeHours
                      /\ LogicallyIdentical(storedBy[k].req, inv'[p].req)) =>
                          /\ inv'[p].key = k
                          /\ inv'[p].hit
                          /\ inv'[p].calls = 0]_vars

---------------------------------------------------------------------------
(* Properties of callJinaReaderAPI called with useCache given, checked     *)
(* under SpecCalls                                                         *)

\* no step of a call with useCache=false changes the store, and a call with
\* useCache=true that succeeds upstream stores the parsed payload under its
\* key with the current time in the step in which it returns it
UseCacheGatesStore ==
    \A p \in Procs :
        /\ (Steps(p) /\ ~inv'[p].useCache) =>
               /\ cache' = cache
               /\ ~inv'[p].hit
        /\ (StepsToPayload(p) /\ inv[p].useCache) =>
               /\ inv[p].key \in DOMAIN cache'
               /\ cache'[inv[p].key] = [data |-> inv'[p].result, timestamp |-> now]
               /\ \A k \in DOMAIN cache' \ {inv[p].key} :
                      k \in DOMAIN cache /\ cache'[k] = cache[k]

\* C16 as stated: a call with useCache=false never reads, removes, creates
\* or overwrites any cache entry (the store is unchanged by it and it always
\* issues an upstream call), while a call with useCache=true that succeeds
\* upstream stores the parsed payload under its key with the current time
\* before returning it.
C16_UseCacheGates ==
    [][/\ UseCacheGatesStore
       /\ \A p \in Procs :
             (Dispatched(p) /\ ~inv'[p].useCache) =>
                 inv'[p].pc = "fetching" /\ inv'[p].calls = 1]_vars

\* C16 (amended): a call with useCache=false never reads, removes, creates
\* or overwrites any cache entry (the store is unchanged by it), and it
\* issues an upstream call whenever the credential is configured (without
\* the credential it fails before any call); a call with useCache=true that
\* succeeds upstream stores the parsed payload under its key with the
\* current time before returning it.
C16_UseCacheGatesWithCredential ==
    [][/\ UseCacheGatesStore
       /\ \A p \in Procs :
             (Dispatched(p) /\ ~inv'[p].useCache) =>
                 IF apiKey # ""
                 THEN inv'[p].pc = "fetching" /\ inv'[p].calls = 1
                 ELSE inv'[p].pc = "done" /\ inv'[p].calls = 0
                      /\ inv'[p].error = ConfigErrorMessage]_vars

\* an entry was stored, and then (in the same slot, half a TTL later at the
\* most) a call with useCache=false for the same key went upstream, returned
\* another payload and left the entry as it was
C16_Witness ==
    /\ inv[2].pc = "idle"
    /\ inv[1].pc = "done" /\ ~inv[1].useCache /\ inv[1].outcome = "returned"
    /\ inv[1].calls = 1 /\ inv[1].result = NoDataBody
    /\ inv[1].key \in DOMAIN cache
    /\ cache[inv[1].key] = [data |-> MidDoc, timestamp |-> 0]
    /\ now - cache[inv[1].key].timestamp < ThreeHours

---------------------------------------------------------------------------
(* Properties of the outbound request, checked under SpecTools (C17) and   *)
(* Spec (C18)                                                              *)

\* the name of the payload field of a tool
PayloadField(tool) ==
    IF tool = "jina_read_url" THEN "url"
    ELSE IF tool = "jina_read_html" THEN "html" ELSE "pdf"

\* the JSON text of the body the claim describes for a request: the payload
\* field, then max_length if the request gives it, then start_index if the
\* request gives it
ForwardedBody(req) ==
    "{\"" \o PayloadField(req.tool) \o "\":\"" \o req.value \o "\""
    \o (IF req.max_length # <<>>
        THEN ",\"max_length\":" \o ToString(req.max_length[1]) ELSE "")
    \o (IF req.start_index # <<>>
        THEN ",\"start_index\":" \o ToString(req.start_index[1]) ELSE "")
    \o "}"

\* C17: the body of the outbound call is the payload field (url, html or
\* pdf) plus max_length exactly when max_length was provided and
\* start_index exactly when start_index was provided (an explicit
\* start_index of 0 is forwarded, an omitted one is not), with their values
\* unchanged.
C17_BodyForwarding ==
    \A p \in Procs :
        IF inv[p].calls = 1
        THEN /\ inv[p].sent.method = "POST"
             /\ inv[p].sent.url = "https://r.jina.ai/"
             /\ inv[p].sent.body = ForwardedBody(inv[p].req)
             /\ inv[p].req.start_index = <<>> => ~Contains(inv[p].sent.body, "start_index")
             /\ inv[p].req.max_length = <<>> => ~Contains(inv[p].sent.body, "max_length")
        ELSE inv[p].sent.body = ""

\* read-pdf was invoked with start_index 0 and without max_length: the body
\* of its call holds the pdf and start_index 0, and no max_length
C17_Witness ==
    \E p \in Procs :
        /\ inv[p].pc = "fetching" /\ inv[p].calls = 1
        /\ inv[p].req = Request("jina_read_pdf", "JVBERi0x", None, None, Some(0))
        /\ inv[p].sent.body = "{\"pdf\":\"JVBERi0x\",\"start_index\":0}"

\* C18: the outbound request carries the engine-override header, with the
\* requested engine as its value, if and only if the engine is not the
\* default one; a handler invoked without an engine sends no such header.
C18_EngineHeader ==
    \A p \in Procs :
        inv[p].calls = 1 =>
            LET headers == inv[p].sent.headers
            IN  /\ ("X-Engine" \in DOMAIN headers) <=> (EngineOf(inv[p].req) # "none")
                /\ "X-Engine" \in DOMAIN headers => headers["X-Engine"] = EngineOf(inv[p].req)
                /\ inv[p].req.engine = <<>> => "X-Engine" \notin DOMAIN headers

\* read-url was invoked with the engine "browser": its call carries
\* X-Engine: browser
C18_Witness ==
    \E p \in Procs :
        /\ inv[p].pc = "fetching" /\ inv[p].calls = 1
        /\ inv[p].req.engine = <<"browser">>
        /\ "X-Engine" \in DOMAIN inv[p].sent.headers
        /\ inv[p].sent.headers["X-Engine"] = "browser"

---------------------------------------------------------------------------
(* Rendering order of the formatter, checked under SpecFormat *)

\* a section of the text: there if and only if its field is
Section(present, text) == IF present THEN text ELSE ""

\* one item "- [text](url)" a line for every link, in the order of the links
RECURSIVE LinkItems(_)
LinkItems(links) ==
    IF links = <<>> THEN ""
    ELSE "- [" \o Head(links)[1] \o "](" \o Head(links)[2] \o ")" \o "\n"
         \o LinkItems(Tail(links))

\* the page was not clipped: its content part is the whole assembled text
NotClipped(text) == ~Contains(TrailerPart(text), "- Content clipped:")

\* C19: when a payload is present, the assembled text consists of the
\* sections title heading, description, content body, Links list, warning
\* line, usage note in exactly that order, each section present if and only
\* if its field is non-empty (description non-empty after trimming, links
\* having at least one entry), and the Links section lists every link as
\* "- [text](url)".
C19_RenderingOrder ==
    (fmt.pc = "returned" /\ fmt.result.hasData /\ NotClipped(fmt.output)) =>
        LET d == fmt.result
        IN  ContentPart(fmt.output) =
                Section(d.title # "", "# " \o d.title \o "\n\n")
                \o Section(Trim(d.description) # "", d.description \o "\n\n")
                \o Section(d.content # "", d.content \o "\n\n")
                \o Section(Len(d.links) >= 1, "## Links\n\n" \o LinkItems(d.links) \o "\n")
                \o Section(d.warning # "", "> Warning: " \o d.warning \o "\n\n")
                \o Section(d.tokens # 0, "*Used " \o ToString(d.tokens) \o " tokens*\n")

\* a payload with all six fields and two links is rendered with all six
\* sections in the order of the claim
C19_Witness ==
    /\ Formatted(FullDoc, None, None)
    /\ fmt.output = "# Title\n\nAbout\n\nbody text\n\n## Links\n\n"
                    \o "- [Example](https://example.com)\n- [Docs](https://docs.example)\n\n"
                    \o "> Warning: cached snapshot\n\n*Used 42 tokens*\n"

---------------------------------------------------------------------------
(* Errors and the cache, checked under Spec *)

\* the response is an error response
IsErrorResponse(response) ==
    Len(response.content) = 1 /\ StartsWith(TextOf(response), "Error: ")

\* C20: an invocation that ends in an "Error: " response leaves no trace in
\* the cache: whatever caused the error (also a 2xx upstream response whose
\* parsed body then makes formatting fail), it has created or overwritten no
\* cache entry, so that no entry of the store was stored by an invocation
\* that answered with an error and no later request is answered from one.
C20_ErrorLeavesNoTrace ==
    /\ \A k \in DOMAIN cache : ~IsErrorResponse(storedBy[k].response)
    /\ \A p \in Procs :
          (inv[p].pc = "done" /\ inv[p].hit) =>
              ~IsErrorResponse(storedBy[inv[p].key].response)

---------------------------------------------------------------------------
(* Transparency and provenance of the cache, checked under Spec *)

\* C21: when a handler invocation is answered from the cache, its text
\* response is identical to the text response of the invocation that
\* populated that entry, which passed the same max_length and the same
\* start_index to the formatter.
C21_CacheTransparency ==
    [][\A p \in Procs :
          (Dispatched(p) /\ inv'[p].hit) =>
              LET k == inv'[p].key
              IN  /\ k \in DOMAIN cache /\ k \in DOMAIN storedBy
                  /\ inv'[p].result = cache[k].data
                  /\ inv'[p].response = storedBy[k].response
                  /\ TextOf(inv'[p].response) = TextOf(storedBy[k].response)
                  /\ storedBy[k].req.max_length = inv'[p].req.max_length
                  /\ StartOf(storedBy[k].req) = StartOf(inv'[p].req)]_vars

\* the request with max_length 10 was stored and then asked again (both in
\* slot 1): the second is answered from the cache with the clipped page the
\* first one got
C21_Witness ==
    /\ inv[2].pc = "idle"
    /\ inv[1].pc = "done" /\ inv[1].hit /\ inv[1].calls = 0
    /\ inv[1].req.max_length = <<10>>
    /\ inv[1].result = MidDoc
    /\ StartsWith(TextOf(inv[1].response), "abcdefghij\n\n---\n[PAGINATION INFO]\n")
    /\ inv[1].response = storedBy[inv[1].key].response

---------------------------------------------------------------------------
(* Provenance of the entries, checked under SpecPaginate, where the        *)
(* upstream answers each URL with a payload of its own                     *)

\* the key the claim describes for a request: the JSON text of its payload,
\* its engine and the options it gives
DerivedKey(req) ==
    "{\"params\":{\"" \o PayloadField(req.tool) \o "\":\"" \o req.value \o "\"}"
    \o ",\"engine\":\"" \o EngineOf(req) \o "\""
    \o (IF req.max_length # <<>>
        THEN ",\"max_length\":" \o ToString(req.max_length[1]) ELSE "")
    \o (IF req.start_index # <<>>
        THEN ",\"start_index\":" \o ToString(req.start_index[1]) ELSE "")
    \o "}"

\* every entry holds the body the upstream gives for the URL of a request
\* that derives its key, stamped not later than the current time
EntriesHaveProvenance ==
    \A k \in DOMAIN cache :
        /\ DOMAIN cache[k] = {"data", "timestamp"}
        /\ cache[k].timestamp \in 0 .. now
        /\ \E url \in PageUrls :
              /\ Contains(k, "{\"url\":\"" \o url \o "\"}")
              /\ cache[k].data = UpstreamPage(url)
        /\ k \in DOMAIN storedBy
        /\ DerivedKey(storedBy[k].req) = k
        /\ cache[k].data = UpstreamPage(storedBy[k].req.value)

\* an entry is written only by the invocation that got a 2xx response for
\* the key, in the step in which it receives the parsed body, with that
\* body and the time of the step; no other entry changes in that step
EntriesWrittenAtStore ==
    \A k \in DOMAIN cache' :
        (k \notin DOMAIN cache \/ cache'[k] # cache[k]) =>
            /\ cache'[k].timestamp = now
            /\ \E p \in Procs :
                  /\ StepsToPayload(p)
                  /\ inv[p].calls = 1
                  /\ DerivedKey(inv[p].req) = k
                  /\ cache'[k].data = inv'[p].result
                  /\ \A j \in DOMAIN cache' \ {k} :
                        j \in DOMAIN cache /\ cache'[j] = cache[j]

\* C22: in every reachable state, under any interleaving of invocations,
\* each cache entry stored under key k holds exactly the parsed body of a
\* 2xx upstream response to a request whose parameters derive k, and its
\* timestamp is the time that response was stored and is never later than
\* the current time; a payload obtained for one key is never stored under
\* another key.
C22_CacheProvenance ==
    []EntriesHaveProvenance /\ [][EntriesWrittenAtStore]_vars

\* the pages of two URLs were requested together and both are stored: each
\* entry holds the payload of its own URL
C22_Witness ==
    \E k1, k2 \in DOMAIN cache :
        /\ Contains(k1, "https://a.example") /\ cache[k1].data = MidDoc
        /\ Contains(k2, "https://long.example") /\ cache[k2].data = LongDoc
        /\ inv[1].pc = "done" /\ inv[2].pc = "done"
        /\ {inv[1].key, inv[2].key} = {k1, k2}

---------------------------------------------------------------------------
(* The credential and the cache, checked under SpecEnv *)

\* C23: when the credential is not configured, an invocation returns the
\* configuration error even if a live entry for its key is in the cache,
\* and it neither reads, removes nor changes any cache entry.
C23_CredentialBeforeCache ==
    [][\A p \in Procs :
          (Dispatched(p) /\ apiKey = "") =>
              /\ inv'[p].pc = "done" /\ inv'[p].outcome = "threw"
              /\ ~inv'[p].hit /\ ~inv'[p].evicted /\ inv'[p].calls = 0
              /\ TextOf(inv'[p].response) =
                     "Error: JINA_API_KEY not configured. Please set it in your .env file."
              /\ cache' = cache]_vars

\* an entry was stored, the credential was removed, and the same request was
\* made again while the entry was live: it got the configuration error and
\* the entry is as it was
C23_Witness ==
    /\ apiKey = ""
    /\ inv[2].pc = "idle"
    /\ inv[1].pc = "done" /\ inv[1].outcome = "threw" /\ inv[1].calls = 0
    /\ inv[1].error = ConfigErrorMessage
    /\ inv[1].key \in DOMAIN cache
    /\ cache[inv[1].key] = [data |-> MidDoc, timestamp |-> 0]
    /\ now - cache[inv[1].key].timestamp < ThreeHours

---------------------------------------------------------------------------
(* Completion of the invocations, checked under SpecTools *)

\* the call of fetch of slot p settles: it resolves or rejects
FetchSettles(p) == FetchOk(p) \/ FetchNotOk(p) \/ FetchRejects(p)

\* the call of response.json() of slot p settles
JsonSettles(p) == JsonParsed(p) \/ JsonFails(p)

\* the upstream call issued by slot p eventually succeeds or fails
CallSettles(p) == WF_vars(FetchSettles(p)) /\ WF_vars(JsonSettles(p))

\* the upstream call of slot p is outstanding
InFlight(p) == inv[p].pc \in {"fetching", "parsing"}

\* C24: provided the upstream call it has issued eventually succeeds or
\* fails, every handler invocation eventually returns, whether or not the
\* call of the other invocation ever settles; an invocation that has
\* returned has given exactly one response, one that waits has given none,
\* and a response once given is not changed or followed by a second one.
C24_AnswersExactlyOnce ==
    /\ \A p \in Procs : CallSettles(p) => (InFlight(p) ~> inv[p].pc = "done")
    /\ [](\A p \in Procs :
             /\ inv[p].pc = "done" =>
                    inv[p].responses = 1 /\ Len(inv[p].response.content) = 1
             /\ InFlight(p) => inv[p].responses = 0 /\ inv[p].response = NoResponse)
    /\ [][\A p \in Procs :
             /\ (inv[p].pc = "done" /\ ~Dispatched(p)) => inv'[p] = inv[p]
             /\ Dispatched(p) => inv'[p].pc \in {"done", "fetching"}]_vars

\* slot 2 was invoked while the call of slot 1 was outstanding, and has
\* returned its response while slot 1 still waits for its call
C24_Witness ==
    /\ inv[1].pc = "fetching" /\ inv[1].calls = 1 /\ inv[1].responses = 0
    /\ inv[2].pc = "done" /\ inv[2].outcome = "returned" /\ inv[2].responses = 1
    /\ inv[2].result = MidDoc
    /\ inv[2].key # inv[1].key

====
